---------------------------- MODULE Spec2Model ----------------------------
(***************************************************************************)
(* Model of cloudiot_pubsub_example_mqtt_device.py: a device that builds a *)
(* JWT, connects to an MQTT bridge, waits for the connect callback,        *)
(* subscribes to its config topic and publishes telemetry, while a         *)
(* background thread parses lines from a serial port and the MQTT client   *)
(* thread delivers callbacks.                                              *)
(***************************************************************************)
EXTENDS Integers, Sequences, FiniteSets, TLC

(***************************************************************************)
(* Bounds of the model and constants of the program.                       *)
(***************************************************************************)
MaxMessages == 2        \* largest --num_messages explored
MaxSerial == 1          \* lines the serial driver buffers at once
MaxTelemetry == 1       \* --num_messages next to the reader thread
MaxClock == 3           \* last clock tick explored
TicksPerSecond == 2     \* resolution of the wall clock, ticks per second
ValiditySeconds == 3600 \* datetime.timedelta(minutes=60)
WaitTimeout == 5        \* device.wait_for_connection(5)
SubFailed == 128        \* granted_qos[0] == 128

VARIABLES
    pc,             \* position of the main thread
    clock,          \* wall clock, in ticks
    project_id,     \* args.project_id
    key_readable,   \* whether open(private_key_file) succeeds
    algorithm,      \* args.algorithm
    no_remote,      \* args.no_remote_device
    num_messages,   \* args.num_messages
    token,          \* the claims dictionary built by create_jwt
    password,       \* the encoded JWT handed to username_pw_set
    connected,      \* Device.connected
    led_on,         \* Device.led_on
    accel,          \* Device.accel_x, accel_y, accel_z
    leds,           \* state of the envirophat LEDs
    total_time,     \* local of wait_for_connection
    loop_running,   \* the client's network thread is running
    connect_calls,  \* calls of client.connect made by main
    subscribed,     \* client.subscribe was called
    iter,           \* iterations of the publish loop started
    polls,          \* calls of update_sensor_data
    published,      \* calls of client.publish
    pub_failed,     \* some client.publish returned an error code
    sleeps,         \* calls of time.sleep(1) made by main
    payload,        \* peripheral readings of the payload composed so far
    readings,       \* RemoteDevice.temperature .. altitude
    reader,         \* position of the serial reader thread
    serial,         \* lines waiting in the serial driver
    line,           \* local of check_incoming_serial_data
    vals,           \* the list being unpacked by process_input_sensor_data
    store,          \* next attribute stored by the unpacking assignment
    rlog,           \* last thing the reader thread printed
    last,           \* the most recent callback: name, arguments and effects
    connect_fired   \* on_connect has been called

vars == <<pc, clock, project_id, key_readable, algorithm, no_remote,
          num_messages, token, password, connected, led_on, accel, leds,
          total_time, loop_running, connect_calls, subscribed, iter, polls,
          published, pub_failed, sleeps, payload, readings, reader,
          serial, line, vals, store, rlog, last, connect_fired>>


(***************************************************************************)
(* Text.  A str or bytes value is a sequence of one-character strings.     *)
(***************************************************************************)
Digits == {"0", "1", "2", "3", "4", "5", "6", "7", "8", "9"}
Signs == {"-", "+"}
LineEnds == {"\r", "\n"}
InvalidByte == "\\xff"    \* a byte that is not valid UTF-8

\* Python values as they are stored: the type and the text of the value.
PyInt(t) == [type |-> "int", text |-> t]
PyFloat(t) == [type |-> "float", text |-> t]
PyStr(t) == [type |-> "str", text |-> t]

\* RemoteDevice.__init__: the five readings start as the integer 0.
DefaultReadings == [k \in 1..5 |-> PyInt(<<"0">>)]

\* bytes.decode(): the text of the bytes, or UnicodeDecodeError.
Decode(raw) ==
    IF \E i \in 1..Len(raw) : raw[i] = InvalidByte
    THEN [ok |-> FALSE, text |-> <<>>]
    ELSE [ok |-> TRUE, text |-> raw]

RECURSIVE LStrip(_, _)
LStrip(s, chars) ==
    IF s # <<>> /\ Head(s) \in chars THEN LStrip(Tail(s), chars) ELSE s

RECURSIVE RStrip(_, _)
RStrip(s, chars) ==
    IF s # <<>> /\ s[Len(s)] \in chars
    THEN RStrip(SubSeq(s, 1, Len(s) - 1), chars)
    ELSE s

\* str.strip("\r\n"): drops leading and trailing carriage returns and newlines.
Strip(s) == RStrip(LStrip(s, LineEnds), LineEnds)

\* input_data.split(':', 1)[-1]: the text after the first colon, or the
\* whole text when it holds no colon.
SplitLast(s) ==
    IF \E i \in 1..Len(s) : s[i] = ":"
    THEN LET c == CHOOSE i \in 1..Len(s) :
                     s[i] = ":" /\ \A j \in 1..(i - 1) : s[j] # ":"
         IN SubSeq(s, c + 1, Len(s))
    ELSE s

\* Number of consecutive digits of s starting at position i.
RECURSIVE DigitRun(_, _)
DigitRun(s, i) ==
    IF i <= Len(s) /\ s[i] \in Digits THEN 1 + DigitRun(s, i + 1) ELSE 0

\* Length of the match of  [-+]?\d*\.\d+|\d+  at position i, 0 when there
\* is none.  The first alternative needs a decimal point followed by a
\* digit; otherwise the second matches a run of digits and no sign.
MatchAt(s, i) ==
    LET j == IF i <= Len(s) /\ s[i] \in Signs THEN i + 1 ELSE i
        dot == j + DigitRun(s, j)
        frac == DigitRun(s, dot + 1)
    IN IF dot <= Len(s) /\ s[dot] = "." /\ frac >= 1
       THEN dot + frac - i + 1
       ELSE DigitRun(s, i)

\* re.findall: the non-overlapping matches, scanning from the left.
RECURSIVE FindFrom(_, _)
FindFrom(s, i) ==
    IF i > Len(s) THEN <<>>
    ELSE LET m == MatchAt(s, i)
         IN IF m > 0
            THEN <<SubSeq(s, i, i + m - 1)>> \o FindFrom(s, i + m)
            ELSE FindFrom(s, i + 1)

FindAll(s) == FindFrom(s, 1)

\* The lines the serial port delivers, as raw bytes with their terminators.
LineExample ==
    <<"x", ":", "1", ".", "0", ",", "2", ",", "3", ".", "5", ",", "4", ",",
      "5", "\r", "\n">>
LineTwoColons ==
    <<"a", ":", "7", ":", "1", "0", " ", "2", " ", "3", " ", ".", "4", "\n">>
LineShort == <<"t", ":", "1", ".", "5", ",", "2", "\n">>
LineNoNumber == <<"5", ":", "n", "a", "n", "\n">>
LineLong ==
    <<"1", ",", "2", ",", "3", ",", "4", ",", "5", ",", "6", "\n">>
LineUndecodable == <<"1", InvalidByte, "\n">>
LineSigned ==
    <<"s", ":", "-", "5", ",", "+", "5", ",", "-", "5", ".", "0", ",", "4",
      ",", "5", "\n">>

SerialLines ==
    {LineExample, LineTwoColons, LineShort, LineNoNumber, LineLong,
     LineUndecodable, LineSigned}

\* The numeric tokens of a decoded line, as process_input_sensor_data sees
\* them.
Tokens(text) == FindAll(SplitLast(text))

\* An unpacking that takes a short list as it comes.
UnpackLenient(tokens) ==
    IF Len(tokens) <= 5
    THEN [exc |-> "",
          vals |-> [k \in 1..Len(tokens) |-> PyStr(tokens[k])]]
    ELSE [exc |-> "ValueError: too many values to unpack", vals |-> <<>>]

\* The destructuring assignment of line 103 unpacks its right-hand side
\* before it stores anything: a list that is not five long raises ValueError.
Unpack(tokens) ==
    IF Len(tokens) = 5
    THEN [exc |-> "", vals |-> [k \in 1..5 |-> PyStr(tokens[k])]]
    ELSE IF Len(tokens) < 5
    THEN [exc |-> "ValueError: not enough values to unpack", vals |-> <<>>]
    ELSE [exc |-> "ValueError: too many values to unpack", vals |-> <<>>]

\* One pass of the try block: readline, decode, strip, split, findall and
\* unpack.  The result holds the line once it is assigned, the values to
\* store and the exception the block raises, if any.
ReadLine(raw, old) ==
    LET d == Decode(raw)
        u == Unpack(Tokens(Strip(d.text)))
    IN IF ~d.ok
       THEN [exc |-> "UnicodeDecodeError", line |-> old, vals |-> <<>>]
       ELSE [exc |-> u.exc, line |-> Strip(d.text), vals |-> u.vals]


(***************************************************************************)
(* Configuration messages.  Python values are written as their repr.       *)
(***************************************************************************)
PayloadEmpty == ""
PayloadOn == "{\"led_on\": true}"
PayloadOff == "{\"led_on\": false}"
PayloadOne == "{\"led_on\": 1}"
PayloadNoKey == "{\"fan_on\": true}"
PayloadGarbage == "led_on=true"

Payloads ==
    {PayloadEmpty, PayloadOn, PayloadOff, PayloadOne, PayloadNoKey,
     PayloadGarbage}

\* json.loads(payload.decode('utf-8')) on the payloads above: whether it
\* decodes, whether the object has the key 'led_on', and the key's value.
JsonLoads(p) ==
    CASE p = PayloadOn -> [ok |-> TRUE, has_key |-> TRUE, led_on |-> "True"]
      [] p = PayloadOff -> [ok |-> TRUE, has_key |-> TRUE, led_on |-> "False"]
      [] p = PayloadOne -> [ok |-> TRUE, has_key |-> TRUE, led_on |-> "1"]
      [] p = PayloadNoKey -> [ok |-> TRUE, has_key |-> FALSE, led_on |-> ""]
      [] OTHER -> [ok |-> FALSE, has_key |-> FALSE, led_on |-> ""]

\* Python's == on the values above: True == 1 and False == 0.
PyEq(a, b) ==
    \/ a = b
    \/ {a, b} = {"True", "1"}
    \/ {a, b} = {"False", "0"}

\* Python's truth value.
Truthy(v) == v \in {"True", "1"}

\* What one call of a callback did: the number of callbacks so far (modulo
\* 2), its name, its result code or granted QoS, its payload, the last line
\* it printed, the call it made to the LEDs and the exception that left it.
Call(n, op, code, p, out, call, exc) ==
    [n |-> n, op |-> op, code |-> code, payload |-> p, out |-> out,
     call |-> call, exc |-> exc]

NoCode == 0 - 1    \* no result code: the callback takes none

\* on_message without the comparison of line 187: every decoded message is
\* applied.
on_message_body_unconditional(p, cur) ==
    LET data == JsonLoads(p)
    IN IF p = PayloadEmpty
       THEN [led_on |-> cur, out |-> "No payload", call |-> "", exc |-> ""]
       ELSE IF ~data.ok
       THEN [led_on |-> cur, out |-> "Exception caught", call |-> "",
             exc |-> "UnboundLocalError"]
       ELSE IF ~data.has_key
       THEN [led_on |-> cur, out |-> "Received message", call |-> "",
             exc |-> "KeyError"]
       ELSE IF Truthy(data.led_on)
       THEN [led_on |-> data.led_on, out |-> "Led turned on.",
             call |-> "leds.on", exc |-> ""]
       ELSE [led_on |-> data.led_on, out |-> "Led turned off.",
             call |-> "leds.off", exc |-> ""]

\* The body of on_message for payload p when Device.led_on is cur: the new
\* led_on, the last line printed, the LED call and the exception raised.
on_message_body(p, cur) ==
    LET data == JsonLoads(p)
    IN IF p = PayloadEmpty
       THEN [led_on |-> cur, out |-> "No payload", call |-> "", exc |-> ""]
       ELSE IF ~data.ok
       THEN \* the except clause prints and falls through to line 187, where
            \* the local data was never bound
            [led_on |-> cur, out |-> "Exception caught", call |-> "",
             exc |-> "UnboundLocalError"]
       ELSE IF ~data.has_key
       THEN [led_on |-> cur, out |-> "Received message", call |-> "",
             exc |-> "KeyError"]
       ELSE IF ~PyEq(data.led_on, cur)
       THEN IF Truthy(data.led_on)
            THEN [led_on |-> data.led_on, out |-> "Led turned on.",
                  call |-> "leds.on", exc |-> ""]
            ELSE [led_on |-> data.led_on, out |-> "Led turned off.",
                  call |-> "leds.off", exc |-> ""]
       ELSE [led_on |-> cur, out |-> "Received message", call |-> "",
             exc |-> ""]


(***************************************************************************)
(* Initial state: the command line is parsed, nothing has run yet.         *)
(***************************************************************************)
ProjectIds == {"my-project-id", "other-project"}
Algorithms == {"RS256", "ES256"}
AccelValues == {<<0, 0, 1>>, <<1, 0, 0>>}
ConnectCodes == {0, 5}       \* CONNACK accepted, CONNACK refused
DisconnectCodes == {0, 1}
GrantedQos == {1, SubFailed}

NoToken == [iat |-> -1, exp |-> -1, aud |-> ""]
NoPassword == [iat |-> -1, exp |-> -1, aud |-> "", alg |-> ""]
NoCall == Call(0, "none", NoCode, "", "", "", "")

Init ==
    /\ pc = "jwt_iat"
    /\ clock = 0
    /\ project_id \in ProjectIds
    /\ key_readable \in BOOLEAN
    /\ algorithm \in Algorithms
    /\ no_remote \in BOOLEAN
    /\ num_messages \in 0..MaxMessages
    /\ token = NoToken
    /\ password = NoPassword
    /\ connected = FALSE
    /\ led_on = "False"
    /\ accel = <<0, 0, 0>>
    /\ leds = "unknown"
    /\ total_time = 0
    /\ loop_running = FALSE
    /\ connect_calls = 0
    /\ subscribed = FALSE
    /\ iter = 0
    /\ polls = 0
    /\ published = 0
    /\ pub_failed = FALSE
    /\ sleeps = 0
    /\ payload = <<>>
    /\ readings = DefaultReadings
    /\ reader = "off"
    /\ serial = <<>>
    /\ line = <<>>
    /\ vals = <<>>
    /\ store = 1
    /\ rlog = ""
    /\ last = NoCall
    /\ connect_fired = FALSE

jwtVars == <<token, password>>
deviceVars == <<connected, led_on, accel, leds>>
mainVars == <<total_time, loop_running, connect_calls, subscribed, iter,
              polls, published, pub_failed, sleeps, payload>>
readerVars == <<readings, reader, serial, line, vals, store, rlog>>
obsVars == <<last, connect_fired>>
argVars == <<project_id, key_readable, algorithm, no_remote, num_messages>>

(***************************************************************************)
(* The wall clock.  Only create_jwt reads it, so it is left to run only    *)
(* until create_jwt has read it for the last time.                         *)
(***************************************************************************)
Tick ==
    /\ pc \in {"jwt_iat", "jwt_exp"}
    /\ clock < MaxClock
    /\ clock' = clock + 1
    /\ UNCHANGED <<pc, argVars, jwtVars, deviceVars, mainVars, readerVars,
                   obsVars>>

(***************************************************************************)
(* create_jwt                                                              *)
(***************************************************************************)
\* datetime.datetime.utcnow(), in ticks
utcnow == clock

\* line 69: 'iat': datetime.datetime.utcnow()
create_jwt_iat ==
    /\ pc = "jwt_iat"
    /\ token' = [token EXCEPT !.iat = utcnow]
    /\ pc' = "jwt_exp"
    /\ UNCHANGED <<clock, argVars, password, deviceVars, mainVars,
                   readerVars, obsVars>>

\* lines 70-71: 'exp': utcnow() + timedelta(minutes=60), 'aud': project_id
create_jwt_exp ==
    /\ pc = "jwt_exp"
    /\ token' = [token EXCEPT !.exp = utcnow + ValiditySeconds * TicksPerSecond,
                              !.aud = project_id]
    /\ pc' = "jwt_open"
    /\ UNCHANGED <<clock, argVars, password, deviceVars, mainVars,
                   readerVars, obsVars>>

\* lines 73-74: reading the key file raises when it cannot be read
create_jwt_open ==
    /\ pc = "jwt_open"
    /\ pc' = IF key_readable THEN "jwt_encode" ELSE "aborted_open"
    /\ UNCHANGED <<clock, argVars, jwtVars, deviceVars, mainVars,
                   readerVars, obsVars>>

\* jwt.encode writes a datetime claim as whole seconds since the epoch.
NumericDate(dt) == dt \div TicksPerSecond

\* line 77: jwt.encode(token, private_key, algorithm=algorithm)
create_jwt_encode ==
    /\ pc = "jwt_encode"
    /\ password' = [iat |-> NumericDate(token.iat),
                    exp |-> NumericDate(token.exp),
                    aud |-> token.aud,
                    alg |-> algorithm]
    /\ pc' = "construct"
    /\ UNCHANGED <<clock, argVars, token, deviceVars, mainVars, readerVars,
                   obsVars>>

(***************************************************************************)
(* main                                                                    *)
(***************************************************************************)
\* lines 269-273: Device(), and RemoteDevice() starts the reader thread
\* unless --no_remote_device is set
main_construct ==
    /\ pc = "construct"
    /\ reader' = IF no_remote THEN "off" ELSE "poll"
    /\ pc' = "connect"
    /\ UNCHANGED <<clock, argVars, jwtVars, deviceVars, mainVars, readings,
                   serial, line, vals, store, rlog, obsVars>>

\* lines 281-283: client.connect(...); client.loop_start()
main_connect ==
    /\ pc = "connect"
    /\ connect_calls' = connect_calls + 1
    /\ loop_running' = TRUE
    /\ total_time' = 0
    /\ pc' = "wfc_test"
    /\ UNCHANGED <<clock, argVars, jwtVars, deviceVars, subscribed, iter,
                   polls, published, pub_failed, sleeps, payload, readerVars,
                   obsVars>>

\* wait_for_connection with the loop test total_time <= timeout
wait_for_connection_test_inclusive ==
    /\ pc = "wfc_test"
    /\ pc' = IF ~connected /\ total_time <= WaitTimeout
             THEN "wfc_sleep" ELSE "wfc_check"
    /\ UNCHANGED <<clock, argVars, jwtVars, deviceVars, mainVars, readerVars,
                   obsVars>>

\* line 142: while not self.connected and total_time < timeout
wait_for_connection_test ==
    /\ pc = "wfc_test"
    /\ pc' = IF ~connected /\ total_time < WaitTimeout
             THEN "wfc_sleep" ELSE "wfc_check"
    /\ UNCHANGED <<clock, argVars, jwtVars, deviceVars, mainVars, readerVars,
                   obsVars>>

\* lines 143-144: time.sleep(1); total_time += 1
wait_for_connection_sleep ==
    /\ pc = "wfc_sleep"
    /\ sleeps' = sleeps + 1
    /\ total_time' = total_time + 1
    /\ pc' = "wfc_test"
    /\ UNCHANGED <<clock, argVars, jwtVars, deviceVars, loop_running,
                   connect_calls, subscribed, iter, polls, published,
                   pub_failed, payload, readerVars, obsVars>>

\* wait_for_connection without the check after its loop
wait_for_connection_check_missing ==
    /\ pc = "wfc_check"
    /\ pc' = "subscribe"
    /\ UNCHANGED <<clock, argVars, jwtVars, deviceVars, mainVars, readerVars,
                   obsVars>>

\* a check after the loop that goes by the time waited, not by the flag
wait_for_connection_check_by_timeout ==
    /\ pc = "wfc_check"
    /\ IF total_time >= WaitTimeout
       THEN /\ pc' = "aborted_wait"
            /\ loop_running' = (reader # "off")
       ELSE /\ pc' = "subscribe"
            /\ UNCHANGED loop_running
    /\ UNCHANGED <<clock, argVars, jwtVars, deviceVars, total_time,
                   connect_calls, subscribed, iter, polls, published,
                   pub_failed, sleeps, payload, readerVars, obsVars>>

\* lines 146-147: if not self.connected: raise RuntimeError.  The error ends
\* the main thread; the client's daemon thread lives on only while the
\* reader thread keeps the process alive.
wait_for_connection_check ==
    /\ pc = "wfc_check"
    /\ IF ~connected
       THEN /\ pc' = "aborted_wait"
            /\ loop_running' = (reader # "off")
       ELSE /\ pc' = "subscribe"
            /\ UNCHANGED loop_running
    /\ UNCHANGED <<clock, argVars, jwtVars, deviceVars, total_time,
                   connect_calls, subscribed, iter, polls, published,
                   pub_failed, sleeps, payload, readerVars, obsVars>>

\* line 296: client.subscribe(mqtt_config_topic, qos=1)
main_subscribe ==
    /\ pc = "subscribe"
    /\ subscribed' = TRUE
    /\ pc' = "loop"
    /\ UNCHANGED <<clock, argVars, jwtVars, deviceVars, total_time,
                   loop_running, connect_calls, iter, polls, published,
                   pub_failed, sleeps, payload, readerVars, obsVars>>

\* line 299: for _ in range(args.num_messages)
main_loop ==
    /\ pc = "loop"
    /\ IF iter < num_messages
       THEN /\ iter' = iter + 1
            /\ pc' = "update"
       ELSE /\ pc' = "disconnect"
            /\ UNCHANGED iter
    /\ UNCHANGED <<clock, argVars, jwtVars, deviceVars, total_time,
                   loop_running, connect_calls, subscribed, polls, published,
                   pub_failed, sleeps, payload, readerVars, obsVars>>

\* an update_sensor_data that also stores a reading of the peripheral
update_sensor_data_writes_reading ==
    /\ pc = "update"
    /\ \E a \in AccelValues : accel' = a
    /\ polls' = polls + 1
    /\ payload' = <<>>
    /\ pc' = "compose"
    /\ readings' = [readings EXCEPT ![1] = PyInt(<<"1">>)]
    /\ UNCHANGED <<clock, argVars, jwtVars, connected, led_on, leds,
                   total_time, loop_running, connect_calls, subscribed, iter,
                   published, pub_failed, sleeps, serial, line, vals, store,
                   rlog, reader, obsVars>>


\* lines 129-136, 302: accel_x, accel_y, accel_z = motion.accelerometer()
update_sensor_data ==
    /\ pc = "update"
    /\ \E a \in AccelValues : accel' = a
    /\ polls' = polls + 1
    /\ payload' = <<>>
    /\ pc' = "compose"
    /\ UNCHANGED <<clock, argVars, jwtVars, connected, led_on, leds,
                   total_time, loop_running, connect_calls, subscribed, iter,
                   published, pub_failed, sleeps, readerVars, obsVars>>

\* a payload composed from the last attribute to the first
main_compose_reversed ==
    /\ pc = "compose"
    /\ payload' = Append(payload, readings[5 - Len(payload)])
    /\ pc' = IF Len(payload) + 1 = 5 THEN "publish" ELSE "compose"
    /\ UNCHANGED <<clock, argVars, jwtVars, deviceVars, total_time,
                   loop_running, connect_calls, subscribed, iter, polls,
                   published, pub_failed, sleeps, readerVars, obsVars>>


\* line 306: the dictionary reads remoteDevice.temperature, .pressure,
\* .humidity, .gas_resistance and .altitude one attribute at a time
main_compose ==
    /\ pc = "compose"
    /\ payload' = Append(payload, readings[Len(payload) + 1])
    /\ pc' = IF Len(payload) + 1 = 5 THEN "publish" ELSE "compose"
    /\ UNCHANGED <<clock, argVars, jwtVars, deviceVars, total_time,
                   loop_running, connect_calls, subscribed, iter, polls,
                   published, pub_failed, sleeps, readerVars, obsVars>>

\* a publish whose error code ends the program
main_publish_checked ==
    /\ pc = "publish"
    /\ \E ok \in BOOLEAN :
           /\ pub_failed' = (pub_failed \/ ~ok)
           /\ pc' = IF ok THEN "sleep" ELSE "aborted_publish"
    /\ published' = published + 1
    /\ UNCHANGED <<clock, argVars, jwtVars, deviceVars, total_time,
                   loop_running, connect_calls, subscribed, iter, polls,
                   sleeps, payload, readerVars, obsVars>>

\* line 309: client.publish(...); its result is not looked at
main_publish ==
    /\ pc = "publish"
    /\ \E ok \in BOOLEAN : pub_failed' = (pub_failed \/ ~ok)
    /\ published' = published + 1
    /\ pc' = "sleep"
    /\ UNCHANGED <<clock, argVars, jwtVars, deviceVars, total_time,
                   loop_running, connect_calls, subscribed, iter, polls,
                   sleeps, payload, readerVars, obsVars>>

\* line 311: time.sleep(1)
main_sleep ==
    /\ pc = "sleep"
    /\ sleeps' = sleeps + 1
    /\ pc' = "loop"
    /\ UNCHANGED <<clock, argVars, jwtVars, deviceVars, total_time,
                   loop_running, connect_calls, subscribed, iter, polls,
                   published, pub_failed, payload, readerVars, obsVars>>

\* line 313: client.disconnect()
main_disconnect ==
    /\ pc = "disconnect"
    /\ pc' = "loop_stop"
    /\ UNCHANGED <<clock, argVars, jwtVars, deviceVars, mainVars, readerVars,
                   obsVars>>

\* lines 314-315: client.loop_stop()
main_loop_stop ==
    /\ pc = "loop_stop"
    /\ loop_running' = FALSE
    /\ pc' = "done"
    /\ UNCHANGED <<clock, argVars, jwtVars, deviceVars, total_time,
                   connect_calls, subscribed, iter, polls, published,
                   pub_failed, sleeps, payload, readerVars, obsVars>>


(***************************************************************************)
(* Callbacks, run by the client's network thread while it is running.      *)
(***************************************************************************)
\* lines 149-152
on_connect ==
    /\ loop_running
    /\ \E rc \in ConnectCodes :
           last' = Call(1 - last.n, "on_connect", rc, "", "Connection Result",
                        "", "")
    /\ connected' = TRUE
    /\ connect_fired' = TRUE
    /\ UNCHANGED <<pc, clock, argVars, jwtVars, led_on, accel, leds,
                   mainVars, readerVars>>

\* lines 154-157
on_disconnect ==
    /\ loop_running
    /\ \E rc \in DisconnectCodes :
           last' = Call(1 - last.n, "on_disconnect", rc, "", "Disconnected",
                        "", "")
    /\ connected' = FALSE
    /\ UNCHANGED <<pc, clock, argVars, jwtVars, led_on, accel, leds,
                   mainVars, readerVars, connect_fired>>

\* an on_publish that takes the acknowledgement as proof of a connection
on_publish_marks_connected ==
    /\ loop_running
    /\ published > 0
    /\ last' = Call(1 - last.n, "on_publish", NoCode, "",
                    "Published message acked.", "", "")
    /\ connected' = TRUE
    /\ UNCHANGED <<pc, clock, argVars, jwtVars, led_on, accel, leds,
                   mainVars, readerVars, connect_fired>>

\* lines 159-161
on_publish ==
    /\ loop_running
    /\ published > 0
    /\ last' = Call(1 - last.n, "on_publish", NoCode, "",
                    "Published message acked.", "", "")
    /\ UNCHANGED <<pc, clock, argVars, jwtVars, deviceVars, mainVars,
                   readerVars, connect_fired>>

\* lines 163-168
on_subscribe ==
    /\ loop_running
    /\ subscribed
    /\ \E qos \in GrantedQos :
           last' = Call(1 - last.n, "on_subscribe", qos, "",
                        IF qos = SubFailed THEN "Subscription failed."
                        ELSE "Subscribed", "", "")
    /\ UNCHANGED <<pc, clock, argVars, jwtVars, deviceVars, mainVars,
                   readerVars, connect_fired>>

\* envirophat leds.on() / leds.off()
LedsAfter(call, cur) ==
    IF call = "leds.on" THEN "on" ELSE IF call = "leds.off" THEN "off" ELSE cur

\* lines 170-197
on_message ==
    /\ loop_running
    /\ subscribed
    /\ \E p \in Payloads :
           LET r == on_message_body(p, led_on)
           IN /\ led_on' = r.led_on
              /\ leds' = LedsAfter(r.call, leds)
              /\ last' = Call(1 - last.n, "on_message", NoCode, p, r.out,
                               r.call, r.exc)
    /\ UNCHANGED <<pc, clock, argVars, jwtVars, connected, accel, mainVars,
                   readerVars, connect_fired>>

(***************************************************************************)
(* The serial port and the reader thread of RemoteDevice.                  *)
(***************************************************************************)
\* The peripheral sends a line; the driver buffers it.
serial_arrive ==
    /\ reader # "off"
    /\ Len(serial) < MaxSerial
    /\ \E l \in SerialLines : serial' = Append(serial, l)
    /\ UNCHANGED <<pc, clock, argVars, jwtVars, deviceVars, mainVars,
                   readings, reader, line, vals, store, rlog, obsVars>>

\* line 111: except Exception catches every exception the try block raises
Catches(exc) == TRUE

\* lines 105-113 and 100-103 up to the unpacking: one pass of the loop with
\* input waiting
check_incoming_serial_data ==
    /\ reader = "poll"
    /\ Len(serial) > 0
    /\ LET r == ReadLine(Head(serial), line)
       IN /\ line' = r.line
          /\ IF r.exc = ""
             THEN /\ vals' = r.vals
                  /\ store' = 1
                  /\ reader' = "store"
                  /\ rlog' = "input_data"
             ELSE /\ reader' = IF Catches(r.exc) THEN "poll" ELSE "dead"
                  /\ rlog' = r.exc
                  /\ UNCHANGED <<vals, store>>
    /\ serial' = Tail(serial)
    /\ UNCHANGED <<pc, clock, argVars, jwtVars, deviceVars, mainVars,
                   readings, obsVars>>

\* line 103: the unpacked values are stored one attribute at a time
process_input_sensor_data ==
    /\ reader = "store"
    /\ IF store <= Len(vals)
       THEN readings' = [readings EXCEPT ![store] = vals[store]]
       ELSE UNCHANGED readings
    /\ store' = store + 1
    /\ reader' = IF store >= Len(vals) THEN "poll" ELSE "store"
    /\ UNCHANGED <<pc, clock, argVars, jwtVars, deviceVars, mainVars, serial,
                   line, vals, rlog, obsVars>>

(***************************************************************************)
(* The program.                                                            *)
(***************************************************************************)
Next ==
    \/ Tick
    \/ create_jwt_iat
    \/ create_jwt_exp
    \/ create_jwt_open
    \/ create_jwt_encode
    \/ main_construct
    \/ main_connect
    \/ wait_for_connection_test
    \/ wait_for_connection_sleep
    \/ wait_for_connection_check
    \/ main_subscribe
    \/ main_loop
    \/ update_sensor_data
    \/ main_compose
    \/ main_publish
    \/ main_sleep
    \/ main_disconnect
    \/ main_loop_stop
    \/ on_connect
    \/ on_disconnect
    \/ on_publish
    \/ on_subscribe
    \/ on_message
    \/ serial_arrive
    \/ check_incoming_serial_data
    \/ process_input_sensor_data

Spec == Init /\ [][Next]_vars

(***************************************************************************)
(* The program's three parts share no state beyond the position of main:   *)
(* the token builder runs before either thread exists, the reader thread   *)
(* writes only the peripheral state, and the callbacks write only the      *)
(* device state.  Each part is also checked on its own, with the inputs    *)
(* the other parts read held fixed.                                        *)
(***************************************************************************)

\* The token builder: every project id, algorithm and key file, under a
\* running clock.
NextJwt ==
    \/ Tick
    \/ create_jwt_iat
    \/ create_jwt_exp
    \/ create_jwt_open
    \/ create_jwt_encode

SpecJwt == Init /\ [][NextJwt]_vars

\* The device session: main and the callbacks, the clock stopped and the
\* peripheral silent.
InitSession ==
    /\ Init
    /\ project_id = "my-project-id"
    /\ algorithm = "RS256"
    /\ key_readable

NextSession ==
    \/ create_jwt_iat
    \/ create_jwt_exp
    \/ create_jwt_open
    \/ create_jwt_encode
    \/ main_construct
    \/ main_connect
    \/ wait_for_connection_test
    \/ wait_for_connection_sleep
    \/ wait_for_connection_check
    \/ main_subscribe
    \/ main_loop
    \/ update_sensor_data
    \/ main_compose
    \/ main_publish
    \/ main_sleep
    \/ main_disconnect
    \/ main_loop_stop
    \/ on_connect
    \/ on_disconnect
    \/ on_publish
    \/ on_subscribe
    \/ on_message

SpecSession == InitSession /\ [][NextSession]_vars

\* The peripheral reader: main up to the start of the reader thread, then
\* the serial port and the reader thread.
InitReader ==
    /\ Init
    /\ project_id = "my-project-id"
    /\ algorithm = "RS256"
    /\ key_readable
    /\ ~no_remote
    /\ num_messages = 0

NextReader ==
    \/ create_jwt_iat
    \/ create_jwt_exp
    \/ create_jwt_open
    \/ create_jwt_encode
    \/ main_construct
    \/ serial_arrive
    \/ check_incoming_serial_data
    \/ process_input_sensor_data

SpecReader == InitReader /\ [][NextReader]_vars


\* The lines of the peripheral in the specifications that run the reader
\* thread next to main: one line the reader stores, one it rejects.
TelemetryLines == {LineExample, LineShort}

\* lines 107-109: the peripheral sends its next line once the reader has
\* taken the last one
serial_next ==
    /\ reader # "off"
    /\ serial = <<>>
    /\ \E l \in TelemetryLines : serial' = Append(serial, l)
    /\ UNCHANGED <<pc, clock, argVars, jwtVars, deviceVars, mainVars,
                   readings, reader, line, vals, store, rlog, obsVars>>

\* The writers of the readings: main, every callback and the reader thread.
\* Without a peripheral the device publishes up to MaxMessages messages;
\* with one it is followed from startup to shutdown with no message to
\* publish.
InitFrame ==
    /\ InitSession
    /\ (no_remote \/ num_messages = 0)

NextFrame ==
    \/ NextSession
    \/ serial_next
    \/ check_incoming_serial_data
    \/ process_input_sensor_data

SpecFrame == InitFrame /\ [][NextFrame]_vars

\* The publish loop next to the reader thread: a device with a peripheral
\* that publishes MaxTelemetry messages; main, the connect callback that
\* lets main past wait_for_connection, and the reader thread.
InitTelemetry ==
    /\ InitSession
    /\ ~no_remote
    /\ num_messages = MaxTelemetry

NextTelemetry ==
    \/ create_jwt_iat
    \/ create_jwt_exp
    \/ create_jwt_open
    \/ create_jwt_encode
    \/ main_construct
    \/ main_connect
    \/ wait_for_connection_test
    \/ wait_for_connection_sleep
    \/ wait_for_connection_check
    \/ main_subscribe
    \/ main_loop
    \/ update_sensor_data
    \/ main_compose
    \/ main_publish
    \/ main_sleep
    \/ main_disconnect
    \/ main_loop_stop
    \/ on_connect
    \/ serial_next
    \/ check_incoming_serial_data
    \/ process_input_sensor_data

SpecTelemetry == InitTelemetry /\ [][NextTelemetry]_vars

(***************************************************************************)
(* Properties.                                                             *)
(***************************************************************************)
\* A step of the client's network thread: one callback ran.
CallbackStep == last'.n # last.n

\* The value of 'led_on' in a payload that decodes to an object holding it.
Decoded(p) == JsonLoads(p).led_on
Applicable(p) == p # PayloadEmpty /\ JsonLoads(p).ok /\ JsonLoads(p).has_key

\* C1: led_on changes only in on_message, and only for a non-empty payload
\* whose decoded 'led_on' differs from the current value, which it then
\* takes; a callback calls leds.on or leds.off exactly when it changes
\* led_on; the second of two deliveries of one payload in a row changes
\* nothing and calls nothing; an empty payload changes nothing, calls
\* nothing, raises nothing and prints only "No payload".
C1_LedChangesOnlyOnDifferingConfig ==
    [][ /\ (led_on' # led_on =>
               /\ CallbackStep
               /\ last'.op = "on_message"
               /\ Applicable(last'.payload)
               /\ ~PyEq(Decoded(last'.payload), led_on)
               /\ led_on' = Decoded(last'.payload))
        /\ (CallbackStep => ((last'.call # "") <=> (led_on' # led_on)))
        /\ (CallbackStep /\ last'.call = "" => leds' = leds)
        /\ (CallbackStep /\ last'.call = "leds.on" =>
               Truthy(led_on') /\ leds' = "on")
        /\ (CallbackStep /\ last'.call = "leds.off" =>
               ~Truthy(led_on') /\ leds' = "off")
        /\ (/\ CallbackStep
            /\ last.op = "on_message"
            /\ last'.op = "on_message"
            /\ last'.payload = last.payload
            => led_on' = led_on /\ leds' = leds /\ last'.call = "")
        /\ (CallbackStep /\ last'.op = "on_message"
                /\ last'.payload = PayloadEmpty
            => /\ led_on' = led_on
               /\ leds' = leds
               /\ last'.call = ""
               /\ last'.exc = ""
               /\ last'.out = "No payload")
      ]_vars

\* The same configuration arrived while the LED was already on, and the
\* callback returned having printed nothing but the receipt.
C1_Witness ==
    /\ last.op = "on_message"
    /\ last.payload = PayloadOn
    /\ last.call = ""
    /\ last.out = "Received message"
    /\ led_on = "True"
    /\ leds = "on"

\* C2: after on_message got a non-empty payload that is not JSON, it has
\* printed the decoding error, no exception left it, led_on is as before
\* and the LEDs were not called.
C2_MalformedJsonIsDropped ==
    (/\ last.op = "on_message"
     /\ last.payload # PayloadEmpty
     /\ ~JsonLoads(last.payload).ok)
    => /\ last.out = "Exception caught"
       /\ last.exc = ""
       /\ last.call = ""

\* C3: while on_connect has not fired, wait_for_connection has slept once
\* per unit of total_time, leaves its loop only with total_time = timeout,
\* never returns normally, and has raised after exactly timeout = 5 sleeps
\* of one second.
C3_TimeoutAfterExactlyTimeoutSleeps ==
    ~connect_fired =>
        /\ sleeps = total_time
        /\ total_time <= WaitTimeout
        /\ pc \in {"jwt_iat", "jwt_exp", "jwt_open", "jwt_encode",
                   "aborted_open", "construct", "connect", "wfc_test",
                   "wfc_sleep", "wfc_check", "aborted_wait"}
        /\ (pc \in {"wfc_check", "aborted_wait"} =>
                sleeps = WaitTimeout /\ total_time = WaitTimeout)

\* The wait timed out with no connect callback.
C3_Witness ==
    /\ pc = "aborted_wait"
    /\ ~connect_fired
    /\ sleeps = 5
    /\ last.op = "on_disconnect"

\* The reader thread took a line from the serial port.
ReadStep == Len(serial') < Len(serial)

\* A line that decodes and holds fewer than five numeric tokens after its
\* first colon.
ShortLine(raw) ==
    Decode(raw).ok /\ Len(Tokens(Strip(Decode(raw).text))) < 5

\* C4: reading a line with fewer than five numeric tokens leaves the five
\* readings and the pending values as they were, the ValueError is printed
\* by the handler, and the thread is back at the head of its loop; no step
\* ends the reader thread.
C4_ShortLineLeavesReadingsUnchanged ==
    [][ /\ (ReadStep /\ ShortLine(Head(serial)) =>
               /\ readings' = readings
               /\ vals' = vals
               /\ store' = store
               /\ rlog' = "ValueError: not enough values to unpack"
               /\ reader' = "poll")
        /\ reader' # "dead"
      ]_vars

\* A short line was read after the example line had been stored: the
\* readings are still those of the example line.
C4_Witness ==
    /\ reader = "poll"
    /\ rlog = "ValueError: not enough values to unpack"
    /\ line = Strip(LineShort)
    /\ readings = [k \in 1..5 |-> PyStr(Tokens(Strip(LineExample))[k])]

\* The number a numeric token denotes: a float when it has a decimal
\* point, an integer otherwise.
Number(t) ==
    IF \E i \in 1..Len(t) : t[i] = "." THEN PyFloat(t) ELSE PyInt(t)

\* C5: once a line with exactly five numeric tokens after its first colon
\* is stored, the five readings are the five numbers, in order; for the
\* line "x:1.0,2,3.5,4,5" they are 1.0, 2, 3.5, 4 and 5.
C5_StoresTheFiveNumbers ==
    (reader = "poll" /\ rlog = "input_data") =>
        /\ Len(Tokens(line)) = 5
        /\ readings = [k \in 1..5 |-> Number(Tokens(line)[k])]
        /\ (line = Strip(LineExample) =>
                readings = <<PyFloat(<<"1", ".", "0">>), PyInt(<<"2">>),
                             PyFloat(<<"3", ".", "5">>), PyInt(<<"4">>),
                             PyInt(<<"5">>)>>)

\* Positions of main after wait_for_connection has returned.
AfterWait ==
    {"subscribe", "loop", "update", "compose", "publish", "sleep",
     "disconnect", "loop_stop", "done"}

\* C6: main has subscribed or published only if it is past a
\* wait_for_connection that returned, which takes a connect callback; it
\* has published only if it has subscribed; and once startup is aborted
\* there is neither a subscription nor a publish.
C6_NoSubscribeOrPublishWithoutConnection ==
    /\ (subscribed \/ published > 0 =>
            pc \in AfterWait \ {"subscribe"} /\ connect_fired)
    /\ (pc \in AfterWait => connect_fired)
    /\ (published > 0 => subscribed)
    /\ (pc \in {"aborted_open", "aborted_wait"} =>
            ~subscribed /\ published = 0 /\ iter = 0)

\* The wait timed out although a connect callback had fired earlier, and
\* nothing was subscribed or published.
C6_Witness ==
    /\ pc = "aborted_wait"
    /\ connect_fired
    /\ ~subscribed
    /\ published = 0

\* A step of main from the publish loop on.
MainLoopStep ==
    \/ main_loop
    \/ update_sensor_data
    \/ main_compose
    \/ main_publish
    \/ main_sleep
    \/ main_disconnect
    \/ main_loop_stop

\* The main thread is scheduled: publish, sleep and the sensor poll return,
\* so a step of main that is possible is eventually taken.
SpecSessionFair == SpecSession /\ WF_vars(MainLoopStep)

\* The counts of the publish loop at each position of main.
LoopCounts ==
    /\ connect_calls <= 1
    /\ (subscribed =>
            /\ pc \in AfterWait \ {"subscribe"}
            /\ connect_calls = 1
            /\ (pc # "done" => ENABLED MainLoopStep))
    /\ iter <= num_messages
    /\ polls = (IF pc = "update" THEN iter - 1 ELSE iter)
    /\ published = (IF pc \in {"update", "compose", "publish"}
                    THEN iter - 1 ELSE iter)
    /\ sleeps - total_time = (IF pc \in {"update", "compose", "publish",
                                          "sleep"}
                                THEN iter - 1 ELSE iter)
    /\ (pc \in {"disconnect", "loop_stop", "done"} => iter = num_messages)
    /\ (pc = "done" => ~loop_running)

\* C7: once main has subscribed it is in the publish loop or past it and,
\* until it is done, always has a next step; every iteration started has
\* polled the sensors once, every publish is followed by one sleep, and
\* main leaves the loop, disconnects and stops the client only after exactly
\* num_messages polls, publishes and sleeps; client.connect is called once;
\* and a main that has subscribed reaches its end, whatever the callbacks
\* and the results of publish.
C7_LoopRunsExactlyNumMessagesTimes ==
    /\ []LoopCounts
    /\ (subscribed ~> (pc = "done"))

\* The program ended after all its publishes, one of which failed, with the
\* device disconnected by a callback.
C7_Witness ==
    /\ pc = "done"
    /\ num_messages >= 2
    /\ published = num_messages
    /\ pub_failed
    /\ connect_fired
    /\ ~connected

\* C8: after an on_connect that reports a failure code the device is not
\* marked connected.
C8_ConnectedOnlyOnSuccess ==
    (last.op = "on_connect" /\ last.code # 0) => ~connected

\* C9: the flag starts false; it changes only in a step of the callback
\* thread, to true in on_connect and to false in on_disconnect; no other
\* callback changes it; and main calls client.connect only from its one
\* connect step, before the wait.
C9_ConnectivityDrivenByCallbacks ==
    /\ connected = FALSE
    /\ [][ /\ (connected' # connected =>
                  /\ CallbackStep
                  /\ pc' = pc
                  /\ (connected' <=> last'.op = "on_connect")
                  /\ (~connected' <=> last'.op = "on_disconnect"))
           /\ (CallbackStep /\ last'.op = "on_connect" => connected')
           /\ (CallbackStep /\ last'.op = "on_disconnect" => ~connected')
           /\ (CallbackStep
                   /\ last'.op \notin {"on_connect", "on_disconnect"}
               => connected' = connected)
           /\ (connect_calls' # connect_calls =>
                  pc = "connect" /\ connect_calls = 0)
         ]_vars

\* A publish was acknowledged after the device had been disconnected, and
\* the device is still marked disconnected.
C9_Witness ==
    /\ last.op = "on_publish"
    /\ connect_fired
    /\ ~connected
    /\ pc = "sleep"

\* C10: the token create_jwt returns expires exactly 60 minutes after it
\* was issued, and its audience is the project id.
C10_ExpiryExactlySixtyMinutesAfterIssue ==
    pc = "construct" =>
        /\ password.exp - password.iat = ValiditySeconds
        /\ password.aud = project_id

\* Length of the optionally signed integer or decimal number that starts at
\* position i of s, 0 when none starts there: an optional sign, then either
\* digits with a decimal point and a fraction, or digits alone.
SignedNumberAt(s, i) ==
    LET j == IF i <= Len(s) /\ s[i] \in Signs THEN i + 1 ELSE i
        whole == DigitRun(s, j)
        dot == j + whole
        frac == DigitRun(s, dot + 1)
    IN IF dot <= Len(s) /\ s[dot] = "." /\ frac >= 1
       THEN dot + frac - i + 1
       ELSE IF whole >= 1 THEN j + whole - i
       ELSE 0

\* The optionally signed numbers of s, scanning from the left.
RECURSIVE SignedNumbersFrom(_, _)
SignedNumbersFrom(s, i) ==
    IF i > Len(s) THEN <<>>
    ELSE LET m == SignedNumberAt(s, i)
         IN IF m > 0
            THEN <<SubSeq(s, i, i + m - 1)>> \o SignedNumbersFrom(s, i + m)
            ELSE SignedNumbersFrom(s, i + 1)

\* C11: once a line is stored, each reading holds the text of the
\* optionally signed integer or decimal number at its position in the
\* line, a signed integer such as -5 or +5 with its sign just as the signed
\* decimal -5.0.
C11_SignedIntegersKeepTheirSign ==
    (reader = "poll" /\ rlog = "input_data") =>
        LET numbers == SignedNumbersFrom(SplitLast(line), 1)
        IN /\ Len(numbers) = 5
           /\ \A k \in 1..5 : readings[k].text = numbers[k]

\* C14 as stated: wait_for_connection raises only after all of its
\* one-second sleeps.
C14_RaisesOnlyAfterAllSleeps ==
    pc = "aborted_wait" => total_time = WaitTimeout

\* The step of wait_for_connection that follows its polling loop.
FinalCheckStep == pc = "wfc_check" /\ pc' # pc

\* C14: wait_for_connection raises exactly when the connectivity flag is
\* false at the check that follows its polling loop, and returns normally
\* exactly when that check reads the flag true; it leaves the loop before
\* all of its sleeps only after a connect callback, and it never sleeps
\* more than the timeout.  A disconnect callback between the loop's last
\* test and the check makes it raise before the timeout.
C14_RaisesWhenFinalCheckReadsFalse ==
    /\ [][FinalCheckStep =>
              /\ (pc' = "aborted_wait") <=> ~connected
              /\ (pc' = "subscribe") <=> connected
              /\ total_time' = total_time]_vars
    /\ [](pc \in {"wfc_check", "aborted_wait"} /\ total_time < WaitTimeout
              => connect_fired)
    /\ [](total_time <= WaitTimeout)

\* wait_for_connection raised before the timeout: the flag was true at a
\* test of the loop and a disconnect callback cleared it before the check.
C14_Witness ==
    /\ pc = "aborted_wait"
    /\ total_time < WaitTimeout
    /\ connect_fired
    /\ ~connected

Accepted(raw) == ReadLine(raw, <<>>).exc = ""
StoredFrom(raw) == ReadLine(raw, <<>>).vals
AcceptedValues == {StoredFrom(l) : l \in {x \in TelemetryLines : Accepted(x)}}
ExampleValues == StoredFrom(LineExample)

\* C13 as stated: a complete payload holds either the five defaults or the
\* five values of one accepted line.
C13_PayloadIsOneSnapshot ==
    Len(payload) = 5 =>
        \/ payload = DefaultReadings
        \/ \E v \in AcceptedValues : payload = v

\* C13: each reading in a payload is, on its own, either the default or the
\* value at its position in a line the reader accepted; the five need not
\* come from one line, nor all be defaults together.  A rejected line
\* contributes nothing.
C13_EachReadingFromAnAcceptedLine ==
    \A k \in 1..Len(payload) :
        \/ payload[k] = DefaultReadings[k]
        \/ \E v \in AcceptedValues : payload[k] = v[k]

\* A published payload that mixes a default with a value of a line: main
\* read the temperature before the reader stored the line and the altitude
\* after.
C13_Witness ==
    /\ pc = "sleep"
    /\ published > 0
    /\ Len(payload) = 5
    /\ payload[1] = DefaultReadings[1]
    /\ payload[5] = ExampleValues[5]

=============================================================================
